---- MODULE Spec2Model ----
(***************************************************************************)
(* AccReader (src/src/lib.rs): an accumulating reader that wraps a         *)
(* forward-only std::io::Read source, keeps every byte read so far in buf  *)
(* and serves Read, BufRead and Seek from buf and the cursor pos.          *)
(***************************************************************************)
EXTENDS Integers, Sequences, FiniteSets, TLC

VARIABLES source, buf, pos, inc, last, phase, out1, out2, twin, mark

vars == <<source, buf, pos, inc, last, phase, out1, out2, twin, mark>>

\* ---------------------------------------------------------------- bounds
MaxLen == 3        \* longest source stream
MaxChunk == 1      \* a short read of the source delivers at most this much
MaxScript == 2     \* scripted source responses per operation, then full reads
MaxDst == 3        \* largest destination slice handed to read
MaxInc == 2        \* largest buffer increment
MaxIntr == 2       \* interruptions counted per loop
WordBits == 4      \* width of usize in the model

WordMod == 2 ^ WordBits
MaxSeek == MaxLen + 1

Min(a, b) == IF a <= b THEN a ELSE b

SeqsUpTo(S, n) == UNION { [1 .. k -> S] : k \in 0 .. n }

IsPrefix(s, t) == Len(s) <= Len(t) /\ SubSeq(t, 1, Len(s)) = s

\* ---------------------------------------------------------------- source
\* How the wrapped reader answers one read request: a short read of at most
\* cap bytes, a read as full as the request and the stream allow, an
\* ErrorKind::Interrupted error, or any other error.
Resp == [kind : {"data"}, cap : 1 .. MaxChunk]
          \cup { [kind |-> "full", cap |-> 0],
                 [kind |-> "intr", cap |-> 0],
                 [kind |-> "err", cap |-> 0] }

Full == [kind |-> "full", cap |-> 0]

Scripts == SeqsUpTo(Resp, MaxScript)

\* The adapter never looks at the value of a byte; over two byte values
\* every byte lost, repeated or out of order shows in some stream.
Bytes == {0, 1}

Streams == SeqsUpTo(Bytes, MaxLen)

Remaining(src) == Len(src.data) - src.off

\* self.source.read(target) with target.len() = n, answered by r
SourceRead(src, n, r) ==
    IF r.kind \in {"intr", "err"}
    THEN [res |-> r.kind, bytes |-> <<>>, source |-> src]
    ELSE LET lim == Min(n, Remaining(src))
             k == IF r.kind = "full" THEN lim ELSE Min(lim, r.cap)
         IN [res |-> "ok",
             bytes |-> SubSeq(src.data, src.off + 1, src.off + k),
             source |-> [src EXCEPT !.off = @ + k]]

\* ---------------------------------------------------------------- read_up_to
\* the match of read_up_to's loop over one source.read result
MatchRead_zero_retries(c) ==
    CASE c.res = "ok" /\ Len(c.bytes) = 0 -> "retry"
      [] c.res = "ok" -> "advance"
      [] c.res = "intr" -> "retry"
      [] OTHER -> "error"

MatchRead_intr_fails(c) ==
    CASE c.res = "ok" /\ Len(c.bytes) = 0 -> "break"
      [] c.res = "ok" -> "advance"
      [] OTHER -> "error"

MatchRead(c) ==
    CASE c.res = "ok" /\ Len(c.bytes) = 0 -> "break"
      [] c.res = "ok" -> "advance"
      [] c.res = "intr" -> "retry"
      [] OTHER -> "error"

RECURSIVE ReadLoop(_, _, _, _, _, _)
ReadLoop(src, b, rem, script, calls, intrs) ==
    IF rem = 0
    THEN [source |-> src, buf |-> b, error |-> FALSE,
          calls |-> calls, intrs |-> intrs]
    ELSE LET r == IF script = <<>> THEN Full ELSE Head(script)
             rest == IF script = <<>> THEN <<>> ELSE Tail(script)
             c == SourceRead(src, rem, r)
             m == MatchRead(c)
         IN CASE m = "break" ->
                   [source |-> c.source, buf |-> b, error |-> FALSE,
                    calls |-> calls + 1, intrs |-> intrs]
              [] m = "advance" ->
                   ReadLoop(c.source, b \o c.bytes, rem - Len(c.bytes),
                            rest, calls + 1, intrs)
              [] m = "retry" ->
                   ReadLoop(src, b, rem, rest, calls + 1, intrs + 1)
              [] OTHER ->
                   [source |-> c.source, buf |-> b, error |-> TRUE,
                    calls |-> calls + 1, intrs |-> intrs]

read_up_to_one_request(src, b, n, script) ==
    LET c == SourceRead(src, n, IF script = <<>> THEN Full ELSE Head(script))
    IN [source |-> c.source, buf |-> b \o c.bytes, error |-> c.res # "ok",
        calls |-> 1, intrs |-> 0]

read_up_to_drops_on_error(src, b, n, script) ==
    LET d == ReadLoop(src, b, n, script, 0, 0)
    IN IF d.error THEN [d EXCEPT !.buf = b] ELSE d

read_up_to(src, b, n, script) == ReadLoop(src, b, n, script, 0, 0)

\* ---------------------------------------------------------------- read_to_end
\* Read::read_to_end always offers the source spare capacity; every request
\* larger than what the stream still holds behaves alike.
DrainRequest == MaxLen + 1

RECURSIVE DrainLoop(_, _, _, _, _)
DrainLoop(src, b, script, calls, intrs) ==
    LET r == IF script = <<>> THEN Full ELSE Head(script)
        rest == IF script = <<>> THEN <<>> ELSE Tail(script)
        c == SourceRead(src, DrainRequest, r)
    IN CASE c.res = "ok" /\ Len(c.bytes) = 0 ->
              [source |-> c.source, buf |-> b, error |-> FALSE,
               calls |-> calls + 1, intrs |-> intrs]
         [] c.res = "ok" ->
              DrainLoop(c.source, b \o c.bytes, rest, calls + 1, intrs)
         [] c.res = "intr" ->
              DrainLoop(src, b, rest, calls + 1, intrs + 1)
         [] OTHER ->
              [source |-> c.source, buf |-> b, error |-> TRUE,
               calls |-> calls + 1, intrs |-> intrs]

read_to_end(src, b, script) == DrainLoop(src, b, script, 0, 0)

\* ---------------------------------------------------------------- results
\* What an operation leaves behind: the adapter's fields, the io::Result
\* (res, ret), the bytes it delivered (out) and its traffic with the source.
Outcome(src, b, p, res, ret, out, calls, intrs) ==
    [source |-> src, buf |-> b, pos |-> p, res |-> res, ret |-> ret,
     out |-> out, calls |-> calls, intrs |-> intrs]

InvalidInput(src, b, p, calls, intrs) ==
    Outcome(src, b, p, "invalid", 0, <<>>, calls, intrs)

\* ---------------------------------------------------------------- Read
read_no_append(src, b, p, n, r) ==
    LET need_to_read == Min(Len(b) - p, n)
    IN IF need_to_read > 0
       THEN Outcome(src, b, p + need_to_read, "ok", need_to_read,
                    SubSeq(b, p + 1, p + need_to_read), 0, 0)
       ELSE LET c == SourceRead(src, n, r)
                k == Len(c.bytes)
            IN IF c.res # "ok"
               THEN Outcome(src, b, p, c.res, 0, <<>>, 1,
                            IF c.res = "intr" THEN 1 ELSE 0)
               ELSE Outcome(c.source, b, Min(p + k, Len(b)), "ok", k,
                            c.bytes, 1, 0)

read_stale_cursor(src, b, p, n, r) ==
    LET need_to_read == Min(Len(b) - p, n)
    IN IF need_to_read > 0
       THEN Outcome(src, b, p, "ok", need_to_read,
                    SubSeq(b, p + 1, p + need_to_read), 0, 0)
       ELSE LET c == SourceRead(src, n, r)
                k == Len(c.bytes)
            IN IF c.res # "ok"
               THEN Outcome(src, b, p, c.res, 0, <<>>, 1,
                            IF c.res = "intr" THEN 1 ELSE 0)
               ELSE Outcome(c.source, b \o c.bytes, p + k, "ok", k,
                            c.bytes, 1, 0)

read_tops_up(src, b, p, n, r) ==
    LET need_to_read == Min(Len(b) - p, n)
        c == SourceRead(src, n - need_to_read, r)
        k == Len(c.bytes)
    IN IF need_to_read > 0 /\ need_to_read = n
       THEN Outcome(src, b, p + need_to_read, "ok", need_to_read,
                    SubSeq(b, p + 1, p + need_to_read), 0, 0)
       ELSE IF c.res # "ok"
            THEN Outcome(src, b, p, c.res, 0, <<>>, 1,
                         IF c.res = "intr" THEN 1 ELSE 0)
            ELSE Outcome(c.source, b \o c.bytes, p + need_to_read + k, "ok",
                         need_to_read + k,
                         SubSeq(b, p + 1, p + need_to_read) \o c.bytes, 1, 0)

read_source_keeps_cursor(src, b, p, n, r) ==
    LET need_to_read == Min(Len(b) - p, n)
    IN IF need_to_read > 0
       THEN Outcome(src, b, p + need_to_read, "ok", need_to_read,
                    SubSeq(b, p + 1, p + need_to_read), 0, 0)
       ELSE LET c == SourceRead(src, n, r)
                k == Len(c.bytes)
            IN IF c.res # "ok"
               THEN Outcome(src, b, p, c.res, 0, <<>>, 1,
                            IF c.res = "intr" THEN 1 ELSE 0)
               ELSE Outcome(c.source, b \o c.bytes, p, "ok", k, c.bytes, 1, 0)

read_only_when_full(src, b, p, n, r) ==
    IF Len(b) - p >= n /\ n > 0
    THEN Outcome(src, b, p + n, "ok", n, SubSeq(b, p + 1, p + n), 0, 0)
    ELSE LET c == SourceRead(src, n, r)
             k == Len(c.bytes)
         IN IF c.res # "ok"
            THEN Outcome(src, b, p, c.res, 0, <<>>, 1,
                         IF c.res = "intr" THEN 1 ELSE 0)
            ELSE Outcome(c.source, b \o c.bytes, p + k, "ok", k, c.bytes, 1, 0)

read(src, b, p, n, r) ==
    LET need_to_read == Min(Len(b) - p, n)
    IN IF need_to_read > 0
       THEN Outcome(src, b, p + need_to_read, "ok", need_to_read,
                    SubSeq(b, p + 1, p + need_to_read), 0, 0)
       ELSE LET c == SourceRead(src, n, r)
                k == Len(c.bytes)
            IN IF c.res # "ok"
               THEN Outcome(src, b, p, c.res, 0, <<>>, 1,
                            IF c.res = "intr" THEN 1 ELSE 0)
               ELSE Outcome(c.source, b \o c.bytes, p + k, "ok", k,
                            c.bytes, 1, 0)

\* ---------------------------------------------------------------- BufRead
fill_buf_view_from_start(src, b, p, i, r) ==
    LET available == Len(b) - p
    IN IF available = 0
       THEN LET old_len == Len(b)
                c == SourceRead(src, (old_len + i) - p, r)
            IN IF c.res # "ok"
               THEN Outcome(src, b, p, c.res, 0, <<>>, 1,
                            IF c.res = "intr" THEN 1 ELSE 0)
               ELSE Outcome(c.source, b \o c.bytes, p, "ok", 0,
                            b \o c.bytes, 1, 0)
       ELSE Outcome(src, b, p, "ok", 0, b, 0, 0)

fill_buf_error_keeps_length(src, b, p, i, r) ==
    LET available == Len(b) - p
    IN IF available = 0
       THEN LET old_len == Len(b)
                c == SourceRead(src, (old_len + i) - p, r)
            IN IF c.res # "ok"
               THEN Outcome(src, b \o [j \in 1 .. i |-> 0], p, c.res, 0, <<>>,
                            1, IF c.res = "intr" THEN 1 ELSE 0)
               ELSE Outcome(c.source, b \o c.bytes, p, "ok", 0,
                            SubSeq(b \o c.bytes, p + 1, Len(b) + Len(c.bytes)),
                            1, 0)
       ELSE Outcome(src, b, p, "ok", 0, SubSeq(b, p + 1, Len(b)), 0, 0)

fill_buf_always_refills(src, b, p, i, r) ==
    LET c == SourceRead(src, i, r)
    IN IF c.res # "ok"
       THEN Outcome(src, b, p, c.res, 0, <<>>, 1,
                    IF c.res = "intr" THEN 1 ELSE 0)
       ELSE Outcome(c.source, b \o c.bytes, p, "ok", 0,
                    SubSeq(b \o c.bytes, p + 1, Len(b) + Len(c.bytes)), 1, 0)

fill_buf(src, b, p, i, r) ==
    LET available == Len(b) - p
    IN IF available = 0
       THEN LET old_len == Len(b)
                c == SourceRead(src, (old_len + i) - p, r)
            IN IF c.res # "ok"
               THEN Outcome(src, b, p, c.res, 0, <<>>, 1,
                            IF c.res = "intr" THEN 1 ELSE 0)
               ELSE Outcome(c.source, b \o c.bytes, p, "ok", 0,
                            SubSeq(b \o c.bytes, p + 1, Len(b) + Len(c.bytes)),
                            1, 0)
       ELSE Outcome(src, b, p, "ok", 0, SubSeq(b, p + 1, Len(b)), 0, 0)

\* self.pos + amt is a usize addition: with overflow checks it panics before
\* pos is assigned, without them it wraps.
consume_no_clamp(src, b, p, amt, checks) ==
    LET sum == p + amt
    IN IF sum >= WordMod /\ checks
       THEN Outcome(src, b, p, "panic", 0, <<>>, 0, 0)
       ELSE Outcome(src, b, sum % WordMod, "ok", 0, <<>>, 0, 0)

consume(src, b, p, amt, checks) ==
    LET sum == p + amt
    IN IF sum >= WordMod /\ checks
       THEN Outcome(src, b, p, "panic", 0, <<>>, 0, 0)
       ELSE Outcome(src, b, Min(sum % WordMod, Len(b)), "ok", 0, <<>>, 0, 0)

\* ---------------------------------------------------------------- Seek
\* SeekFrom::End(n)
seek_end_drains_first(src, b, p, n, script) ==
    LET d == read_to_end(src, b, script)
        dist == -n
    IN IF d.error
       THEN Outcome(d.source, d.buf, p, "err", 0, <<>>, d.calls, d.intrs)
       ELSE IF n > 0 \/ dist > Len(d.buf)
            THEN InvalidInput(d.source, d.buf, p, d.calls, d.intrs)
            ELSE Outcome(d.source, d.buf, Len(d.buf) - dist, "ok",
                         Len(d.buf) - dist, <<>>, d.calls, d.intrs)

seek_end_stale_len(src, b, p, n, script) ==
    IF n > 0
    THEN InvalidInput(src, b, p, 0, 0)
    ELSE LET d == read_to_end(src, b, script)
             dist == -n
         IN IF d.error
            THEN Outcome(d.source, d.buf, p, "err", 0, <<>>, d.calls, d.intrs)
            ELSE IF dist > Len(b)
                 THEN InvalidInput(d.source, d.buf, p, d.calls, d.intrs)
                 ELSE Outcome(d.source, d.buf, Len(b) - dist, "ok",
                              Len(b) - dist, <<>>, d.calls, d.intrs)

seek_end(src, b, p, n, script) ==
    IF n > 0
    THEN InvalidInput(src, b, p, 0, 0)
    ELSE LET d == read_to_end(src, b, script)
             dist == -n
         IN IF d.error
            THEN Outcome(d.source, d.buf, p, "err", 0, <<>>, d.calls, d.intrs)
            ELSE IF dist > Len(d.buf)
                 THEN InvalidInput(d.source, d.buf, p, d.calls, d.intrs)
                 ELSE Outcome(d.source, d.buf, Len(d.buf) - dist, "ok",
                              Len(d.buf) - dist, <<>>, d.calls, d.intrs)

\* SeekFrom::Start(n)
seek_start_moves_on_failure(src, b, p, n, script) ==
    IF n <= Len(b)
    THEN Outcome(src, b, n, "ok", n, <<>>, 0, 0)
    ELSE LET need_to_read == n - Len(b)
             d == read_up_to(src, b, need_to_read, script)
         IN IF d.error
            THEN Outcome(d.source, d.buf, p, "err", 0, <<>>, d.calls, d.intrs)
            ELSE IF n > Len(d.buf)
                 THEN InvalidInput(d.source, d.buf, Len(d.buf), d.calls, d.intrs)
                 ELSE Outcome(d.source, d.buf, n, "ok", n, <<>>,
                              d.calls, d.intrs)

seek_start(src, b, p, n, script) ==
    IF n <= Len(b)
    THEN Outcome(src, b, n, "ok", n, <<>>, 0, 0)
    ELSE LET need_to_read == n - Len(b)
             d == read_up_to(src, b, need_to_read, script)
         IN IF d.error
            THEN Outcome(d.source, d.buf, p, "err", 0, <<>>, d.calls, d.intrs)
            ELSE IF n > Len(d.buf)
                 THEN InvalidInput(d.source, d.buf, p, d.calls, d.intrs)
                 ELSE Outcome(d.source, d.buf, n, "ok", n, <<>>,
                              d.calls, d.intrs)

\* SeekFrom::Current(n)
seek_current_error_as_invalid(src, b, p, n, script) ==
    IF n = 0
    THEN Outcome(src, b, p, "ok", p, <<>>, 0, 0)
    ELSE IF n < 0
         THEN LET d == -n
              IN IF d > p
                 THEN InvalidInput(src, b, p, 0, 0)
                 ELSE Outcome(src, b, p - d, "ok", p - d, <<>>, 0, 0)
         ELSE LET new_pos == p + n
              IN IF new_pos > Len(b)
                 THEN LET need_to_read == new_pos - Len(b)
                          d == read_up_to(src, b, need_to_read, script)
                      IN IF new_pos > Len(d.buf)
                         THEN InvalidInput(d.source, d.buf, p,
                                           d.calls, d.intrs)
                         ELSE Outcome(d.source, d.buf, new_pos, "ok",
                                      new_pos, <<>>, d.calls, d.intrs)
                 ELSE Outcome(src, b, new_pos, "ok", new_pos, <<>>, 0, 0)

seek_current_back_to_distance(src, b, p, n, script) ==
    IF n = 0
    THEN Outcome(src, b, p, "ok", p, <<>>, 0, 0)
    ELSE IF n < 0
         THEN LET d == -n
              IN IF d > p
                 THEN InvalidInput(src, b, p, 0, 0)
                 ELSE Outcome(src, b, d, "ok", d, <<>>, 0, 0)
         ELSE LET new_pos == p + n
              IN IF new_pos > Len(b)
                 THEN LET need_to_read == new_pos - Len(b)
                          d == read_up_to(src, b, need_to_read, script)
                      IN IF d.error
                         THEN Outcome(d.source, d.buf, p, "err", 0, <<>>,
                                      d.calls, d.intrs)
                         ELSE IF new_pos > Len(d.buf)
                              THEN InvalidInput(d.source, d.buf, p,
                                                d.calls, d.intrs)
                              ELSE Outcome(d.source, d.buf, new_pos, "ok",
                                           new_pos, <<>>, d.calls, d.intrs)
                 ELSE Outcome(src, b, new_pos, "ok", new_pos, <<>>, 0, 0)

seek_current_offset_as_target(src, b, p, n, script) ==
    IF n = 0
    THEN Outcome(src, b, p, "ok", p, <<>>, 0, 0)
    ELSE IF n < 0
         THEN LET d == -n
              IN IF d > p
                 THEN InvalidInput(src, b, p, 0, 0)
                 ELSE Outcome(src, b, p - d, "ok", p - d, <<>>, 0, 0)
         ELSE LET new_pos == p + n
              IN IF new_pos > Len(b)
                 THEN LET need_to_read == new_pos - Len(b)
                          d == read_up_to(src, b, need_to_read, script)
                      IN IF d.error
                         THEN Outcome(d.source, d.buf, p, "err", 0, <<>>,
                                      d.calls, d.intrs)
                         ELSE IF new_pos > Len(d.buf)
                              THEN InvalidInput(d.source, d.buf, p,
                                                d.calls, d.intrs)
                              ELSE Outcome(d.source, d.buf, n, "ok", n,
                                           <<>>, d.calls, d.intrs)
                 ELSE Outcome(src, b, new_pos, "ok", new_pos, <<>>, 0, 0)

seek_current(src, b, p, n, script) ==
    IF n = 0
    THEN Outcome(src, b, p, "ok", p, <<>>, 0, 0)
    ELSE IF n < 0
         THEN LET d == -n
              IN IF d > p
                 THEN InvalidInput(src, b, p, 0, 0)
                 ELSE Outcome(src, b, p - d, "ok", p - d, <<>>, 0, 0)
         ELSE LET new_pos == p + n
              IN IF new_pos > Len(b)
                 THEN LET need_to_read == new_pos - Len(b)
                          d == read_up_to(src, b, need_to_read, script)
                      IN IF d.error
                         THEN Outcome(d.source, d.buf, p, "err", 0, <<>>,
                                      d.calls, d.intrs)
                         ELSE IF new_pos > Len(d.buf)
                              THEN InvalidInput(d.source, d.buf, p,
                                                d.calls, d.intrs)
                              ELSE Outcome(d.source, d.buf, new_pos, "ok",
                                           new_pos, <<>>, d.calls, d.intrs)
                 ELSE Outcome(src, b, new_pos, "ok", new_pos, <<>>, 0, 0)

seek(src, b, p, whence, n, script) ==
    CASE whence = "End" -> seek_end(src, b, p, n, script)
      [] whence = "Start" -> seek_start(src, b, p, n, script)
      [] OTHER -> seek_current(src, b, p, n, script)

\* ---------------------------------------------------------------- state
NoOp == [op |-> "none", arg |-> 0, script |-> <<>>, res |-> "ok", ret |-> 0,
         out |-> <<>>, pos0 |-> 0, buf0 |-> <<>>, off0 |-> 0,
         calls |-> 0, intrs |-> 0]

\* with_initial_capacity_and_increment: empty buffer, cursor 0, nothing read
New ==
    /\ source \in [data : Streams, off : {0}]
    /\ buf = <<>>
    /\ pos = 0
    /\ inc \in 0 .. MaxInc
    /\ last = NoOp

Idle ==
    /\ out1 = <<>>
    /\ out2 = <<>>
    /\ twin = [res |-> "none"]
    /\ mark = [op |-> "none"]

Init ==
    /\ New
    /\ phase = "free"
    /\ Idle

\* the effect of one completed call on the adapter and on the record of it
Apply(op, arg, script, R) ==
    /\ source' = R.source
    /\ buf' = R.buf
    /\ pos' = R.pos
    /\ last' = [op |-> op, arg |-> arg, script |-> script, res |-> R.res,
                ret |-> R.ret, out |-> R.out, pos0 |-> pos, buf0 |-> buf,
                off0 |-> source.off, calls |-> R.calls, intrs |-> R.intrs]
    /\ UNCHANGED inc

\* The adapter is used by one caller, one call at a time: a call starts
\* when the caller holds no result, and the caller takes each result before
\* its next call.
Free == phase = "free" /\ last = NoOp /\ UNCHANGED <<phase, out1, out2, twin, mark>>

Return ==
    /\ phase = "free"
    /\ last # NoOp
    /\ last' = NoOp
    /\ UNCHANGED <<source, buf, pos, inc, phase, out1, out2, twin, mark>>

\* A script is the source's answers to the requests of one call, in order;
\* answers the call never asks for are not part of it.
Canonical(script, R) == Len(script) <= R.calls

\* a script in which the source reports no error of its own
NoErr(script) == \A i \in DOMAIN script : script[i].kind # "err"

Answer(script) == IF script = <<>> THEN Full ELSE Head(script)

Read ==
    /\ Free
    /\ \E n \in 0 .. MaxDst, script \in SeqsUpTo(Resp, 1) :
          LET R == read(source, buf, pos, n, Answer(script))
          IN Canonical(script, R) /\ Apply("read", n, script, R)

FillBuf ==
    /\ Free
    /\ \E script \in SeqsUpTo(Resp, 1) :
          LET R == fill_buf(source, buf, pos, inc, Answer(script))
          IN Canonical(script, R) /\ Apply("fill_buf", 0, script, R)

Consume ==
    /\ Free
    /\ \E amt \in 0 .. WordMod - 1, checks \in BOOLEAN :
          Apply("consume", amt, <<>>, consume(source, buf, pos, amt, checks))

SeekStart ==
    /\ Free
    /\ \E n \in 0 .. MaxSeek, script \in Scripts :
          LET R == seek(source, buf, pos, "Start", n, script)
          IN Canonical(script, R) /\ Apply("seek_start", n, script, R)

SeekCurrent ==
    /\ Free
    /\ \E n \in -MaxSeek .. MaxSeek, script \in Scripts :
          LET R == seek(source, buf, pos, "Current", n, script)
          IN Canonical(script, R) /\ Apply("seek_current", n, script, R)

SeekEnd ==
    /\ Free
    /\ \E n \in -MaxSeek .. MaxSeek, script \in Scripts :
          LET R == seek(source, buf, pos, "End", n, script)
          IN Canonical(script, R) /\ Apply("seek_end", n, script, R)

Next ==
    \/ Read
    \/ FillBuf
    \/ Consume
    \/ SeekStart
    \/ SeekCurrent
    \/ SeekEnd
    \/ Return

Spec == Init /\ [][Next]_vars

\* ---------------------------------------------------------------- replay
\* A caller reads a fresh adapter to the end with read (a call that fails is
\* simply made again), seeks to Start(0) and reads to the end once more.
\* out1 and out2 collect what the two passes deliver.
InitReplay ==
    /\ New
    /\ phase = "pass1"
    /\ Idle

ReplayRead(n, script) ==
    LET R == read(source, buf, pos, n, Answer(script))
        done == R.res = "ok" /\ R.ret = 0
    IN /\ Canonical(script, R)
       /\ Apply("read", n, script, R)
       /\ IF phase = "pass1"
          THEN /\ out1' = out1 \o R.out
               /\ phase' = IF done THEN "rewind" ELSE "pass1"
               /\ UNCHANGED out2
          ELSE /\ out2' = out2 \o R.out
               /\ phase' = IF done THEN "done" ELSE "pass2"
               /\ UNCHANGED out1
       /\ UNCHANGED <<twin, mark>>

ReplayFirstPass ==
    /\ phase = "pass1"
    /\ \E n \in 1 .. MaxDst, script \in SeqsUpTo(Resp, 1) : ReplayRead(n, script)

ReplayRewind ==
    /\ phase = "rewind"
    /\ LET R == seek(source, buf, pos, "Start", 0, <<>>)
       IN /\ Apply("seek_start", 0, <<>>, R)
          /\ phase' = IF R.res = "ok" THEN "pass2" ELSE "stuck"
    /\ UNCHANGED <<out1, out2, twin, mark>>

ReplaySecondPass ==
    /\ phase = "pass2"
    /\ \E n \in 1 .. MaxDst, script \in SeqsUpTo(Resp, 1) : ReplayRead(n, script)

NextReplay ==
    \/ ReplayFirstPass
    \/ ReplayRewind
    \/ ReplaySecondPass

SpecReplay == InitReplay /\ [][NextReplay]_vars

\* ---------------------------------------------------------------- end seek
\* After any history of calls, the caller seeks to End(-k) and then reads
\* to the end with read; mark keeps the record of the seek, out1 collects
\* what the reads deliver.
\* the effect of a call of which only the result is kept
Quiet(op, arg, R) ==
    /\ source' = R.source
    /\ buf' = R.buf
    /\ pos' = R.pos
    /\ last' = [NoOp EXCEPT !.op = op, !.arg = arg, !.res = R.res,
                            !.ret = R.ret, !.pos0 = pos]
    /\ UNCHANGED inc

EndSeek ==
    /\ phase = "free"
    /\ last = NoOp
    /\ \E k \in 0 .. MaxSeek, script \in Scripts :
          LET R == seek(source, buf, pos, "End", -k, script)
          IN /\ Canonical(script, R)
             /\ Quiet("seek_end", -k, R)
             /\ mark' = [op |-> "seek_end", arg |-> -k, res |-> R.res,
                         ret |-> R.ret, failed |-> ~NoErr(script),
                         pos0 |-> pos, len0 |-> Len(buf)]
             /\ phase' = IF R.res = "ok" THEN "tail" ELSE "failed"
    /\ UNCHANGED <<out1, out2, twin>>

TailRead ==
    /\ phase = "tail"
    /\ \E n \in 1 .. MaxDst, script \in SeqsUpTo(Resp, 1) :
          LET R == read(source, buf, pos, n, Answer(script))
          IN /\ Canonical(script, R)
             /\ Quiet("read", n, R)
             /\ out1' = out1 \o R.out
             /\ phase' = IF R.res = "ok" /\ R.ret = 0 THEN "done" ELSE "tail"
    /\ UNCHANGED <<out2, twin, mark>>

NextEndSeek ==
    \/ Next
    \/ EndSeek
    \/ TailRead

SpecEndSeek == Init /\ [][NextEndSeek]_vars

\* ---------------------------------------------------------------- two seeks
\* After any history of calls, with cursor c and a source of at least
\* c + a + b bytes that reports no error of its own, the caller seeks to
\* Current(a) and then to Current(b); twin is what the one call
\* seek(Current(a + b)) gives from the same state.
Fork ==
    /\ phase = "free"
    /\ last = NoOp
    /\ \E a \in 0 .. MaxSeek, b \in 0 .. MaxSeek :
          /\ pos + a + b <= Len(source.data)
          /\ \E script \in Scripts :
                LET R == seek(source, buf, pos, "Current", a + b, script)
                IN /\ NoErr(script)
                   /\ Canonical(script, R)
                   /\ twin' = [res |-> R.res, ret |-> R.ret, pos |-> R.pos,
                               a |-> a, b |-> b, c |-> pos]
    /\ phase' = "first"
    /\ UNCHANGED <<source, buf, pos, inc, last, out1, out2, mark>>

FirstSeek ==
    /\ phase = "first"
    /\ \E script \in Scripts :
          LET R == seek(source, buf, pos, "Current", twin.a, script)
          IN /\ NoErr(script)
             /\ Canonical(script, R)
             /\ Quiet("seek_current", twin.a, R)
             /\ phase' = IF R.res = "ok" THEN "second" ELSE "failed"
    /\ UNCHANGED <<out1, out2, twin, mark>>

SecondSeek ==
    /\ phase = "second"
    /\ \E script \in Scripts :
          LET R == seek(source, buf, pos, "Current", twin.b, script)
          IN /\ NoErr(script)
             /\ Canonical(script, R)
             /\ Quiet("seek_current", twin.b, R)
             /\ phase' = "done"
    /\ UNCHANGED <<out1, out2, twin, mark>>

NextTwoSeeks ==
    \/ Next
    \/ Fork
    \/ FirstSeek
    \/ SecondSeek

SpecTwoSeeks == Init /\ [][NextTwoSeeks]_vars

\* ---------------------------------------------------------------- chunks
\* A caller reads a fresh adapter with an increment of at least 1 through
\* fill_buf, consuming each view whole, over a source that fills every
\* request as far as it can.  out2 lists the views, out1 is their
\* concatenation.  The stream and increment of test_acc_reader_buf_read are
\* among the cases.
BufReadTestStream == <<5, 6, 7, 0, 1, 2, 3, 4>>

BufReadTestInc == 3

InitChunks ==
    /\ \/ /\ source \in [data : Streams, off : {0}]
          /\ inc \in 1 .. MaxInc
       \/ /\ source = [data |-> BufReadTestStream, off |-> 0]
          /\ inc = BufReadTestInc
    /\ buf = <<>>
    /\ pos = 0
    /\ last = NoOp
    /\ phase = "fill"
    /\ Idle

ChunkFill ==
    /\ phase = "fill"
    /\ LET R == fill_buf(source, buf, pos, inc, Full)
       IN /\ Apply("fill_buf", 0, <<>>, R)
          /\ out1' = out1 \o R.out
          /\ out2' = Append(out2, R.out)
          /\ phase' = IF R.out = <<>> THEN "done" ELSE "consume"
    /\ UNCHANGED <<twin, mark>>

ChunkConsume ==
    /\ phase = "consume"
    /\ \E checks \in BOOLEAN :
          Apply("consume", Len(last.out), <<>>,
                consume(source, buf, pos, Len(last.out), checks))
    /\ phase' = "fill"
    /\ UNCHANGED <<out1, out2, twin, mark>>

NextChunks ==
    \/ ChunkFill
    \/ ChunkConsume

SpecChunks == InitChunks /\ [][NextChunks]_vars

\* ---------------------------------------------------------------- reads
\* A caller reads a fresh adapter to the end with read into one destination
\* of fixed capacity, over a source that fills every request as far as it
\* can.  mark keeps the capacity, out2 lists what each read delivers.  The
\* stream and destination of test_acc_reader_read, and the eight-byte stream
\* of the other tests, are among the cases.
ReadTestStream == <<5, 6, 7, 0, 1, 2, 3>>

ReadTestDst == 2

InitReads ==
    /\ \/ /\ source \in [data : Streams, off : {0}]
          /\ mark \in [op : {"dst"}, arg : 1 .. MaxDst]
       \/ /\ source \in [data : {ReadTestStream, BufReadTestStream}, off : {0}]
          /\ mark = [op |-> "dst", arg |-> ReadTestDst]
    /\ buf = <<>>
    /\ pos = 0
    /\ inc \in 0 .. MaxInc
    /\ last = NoOp
    /\ phase = "reading"
    /\ out1 = <<>>
    /\ out2 = <<>>
    /\ twin = [res |-> "none"]

ReadNext ==
    /\ phase = "reading"
    /\ LET R == read(source, buf, pos, mark.arg, Full)
       IN /\ Apply("read", mark.arg, <<>>, R)
          /\ out1' = out1 \o R.out
          /\ out2' = Append(out2, R.out)
          /\ phase' = IF R.ret = 0 THEN "done" ELSE "reading"
    /\ UNCHANGED <<twin, mark>>

NextReads == ReadNext

SpecReads == InitReads /\ [][NextReads]_vars

\* ---------------------------------------------------------------- loops
\* The loops of seek one source request at a time: the while loop of
\* read_up_to under a forward seek (phase "loop") and read_to_end under
\* SeekFrom::End (phase "drain").  twin holds the locals of the call: the
\* target, the shortfall s it began with, what is left of it (rem), the
\* requests that returned data (reads), the interruptions seen (counted up
\* to MaxIntr) and the kind of the last answer.
DEFAULT_BUF_INCREMENT == 1024

NoLocals ==
    [op |-> "none", arg |-> 0, target |-> 0, s |-> 0, rem |-> 0,
     reads |-> 0, intrs |-> 0, kind |-> "none"]

InitLoop ==
    /\ source \in [data : Streams, off : {0}]
    /\ buf = <<>>
    /\ pos = 0
    /\ inc = DEFAULT_BUF_INCREMENT
    /\ last = NoOp
    /\ phase = "idle"
    /\ out1 = <<>>
    /\ out2 = <<>>
    /\ mark = [op |-> "none"]
    /\ twin = NoLocals

Locals(op, arg, target, s) ==
    [op |-> op, arg |-> arg, target |-> target, s |-> s, rem |-> s,
     reads |-> 0, intrs |-> 0, kind |-> "none"]

\* the call returns: Ok(p) with the cursor moved to p, or an error with the
\* cursor where it was
Finish(res, p) ==
    /\ pos' = (IF res = "ok" THEN p ELSE pos)
    /\ last' = [NoOp EXCEPT !.op = twin.op, !.arg = twin.arg, !.res = res,
                            !.ret = (IF res = "ok" THEN p ELSE 0), !.pos0 = pos]
    /\ phase' = "idle"

\* the caller has the result of the call; its locals are gone
LoopReturn ==
    /\ phase = "idle"
    /\ twin # NoLocals
    /\ twin' = NoLocals
    /\ last' = NoOp
    /\ UNCHANGED <<source, buf, pos, inc, phase, out1, out2, mark>>

BeginForward ==
    /\ phase = "idle"
    /\ twin = NoLocals
    /\ \E n \in 1 .. MaxSeek :
          \/ /\ n > Len(buf)
             /\ twin' = Locals("seek_start", n, n, n - Len(buf))
          \/ /\ pos + n > Len(buf)
             /\ twin' = Locals("seek_current", n, pos + n, pos + n - Len(buf))
    /\ phase' = "loop"
    /\ UNCHANGED <<source, buf, pos, inc, last, out1, out2, mark>>

\* one pass of while !target.is_empty() with the source answering r, and
\* the rest of seek once the loop is left
LoopStep(r) ==
    LET c == SourceRead(source, twin.rem, r)
        m == MatchRead(c)
        t == [twin EXCEPT !.kind = r.kind]
    IN CASE m = "advance" ->
              LET left == twin.rem - Len(c.bytes)
              IN /\ source' = c.source
                 /\ buf' = buf \o c.bytes
                 /\ twin' = [t EXCEPT !.rem = left, !.reads = @ + 1]
                 /\ IF left = 0
                    THEN IF twin.target > Len(buf')
                         THEN Finish("invalid", 0)
                         ELSE Finish("ok", twin.target)
                    ELSE UNCHANGED <<pos, last, phase>>
         [] m = "break" ->
              /\ twin' = t
              /\ IF twin.target > Len(buf)
                 THEN Finish("invalid", 0)
                 ELSE Finish("ok", twin.target)
              /\ UNCHANGED <<source, buf>>
         [] m = "retry" ->
              /\ twin' = [t EXCEPT !.intrs = Min(@ + 1, MaxIntr)]
              /\ UNCHANGED <<source, buf, pos, last, phase>>
         [] OTHER ->
              /\ twin' = t
              /\ Finish("err", 0)
              /\ UNCHANGED <<source, buf>>

LoopAnswered ==
    /\ phase = "loop"
    /\ \E r \in Resp : r.kind # "intr" /\ LoopStep(r)
    /\ UNCHANGED <<inc, out1, out2, mark>>

LoopInterrupted ==
    /\ phase = "loop"
    /\ LoopStep([kind |-> "intr", cap |-> 0])
    /\ UNCHANGED <<inc, out1, out2, mark>>

BeginEnd ==
    /\ phase = "idle"
    /\ twin = NoLocals
    /\ \E n \in -MaxSeek .. 0 :
          twin' = Locals("seek_end", n, n, 0)
    /\ phase' = "drain"
    /\ UNCHANGED <<source, buf, pos, inc, last, out1, out2, mark>>

\* one request of read_to_end with the source answering r, and the rest of
\* seek once the stream is drained
DrainStep(r) ==
    LET c == SourceRead(source, DrainRequest, r)
        t == [twin EXCEPT !.kind = r.kind]
    IN CASE c.res = "ok" /\ Len(c.bytes) = 0 ->
              /\ twin' = t
              /\ IF -twin.arg > Len(buf)
                 THEN Finish("invalid", 0)
                 ELSE Finish("ok", Len(buf) - (-twin.arg))
              /\ UNCHANGED <<source, buf>>
         [] c.res = "ok" ->
              /\ source' = c.source
              /\ buf' = buf \o c.bytes
              /\ twin' = [t EXCEPT !.reads = @ + 1]
              /\ UNCHANGED <<pos, last, phase>>
         [] c.res = "intr" ->
              /\ twin' = [t EXCEPT !.intrs = Min(@ + 1, MaxIntr)]
              /\ UNCHANGED <<source, buf, pos, last, phase>>
         [] OTHER ->
              /\ twin' = t
              /\ Finish("err", 0)
              /\ UNCHANGED <<source, buf>>

DrainAnswered ==
    /\ phase = "drain"
    /\ \E r \in Resp : r.kind # "intr" /\ DrainStep(r)
    /\ UNCHANGED <<inc, out1, out2, mark>>

DrainInterrupted ==
    /\ phase = "drain"
    /\ DrainStep([kind |-> "intr", cap |-> 0])
    /\ UNCHANGED <<inc, out1, out2, mark>>

NextLoop ==
    \/ BeginForward
    \/ LoopAnswered
    \/ LoopInterrupted
    \/ BeginEnd
    \/ DrainAnswered
    \/ DrainInterrupted
    \/ LoopReturn

\* The source does not answer Interrupted forever: a request that keeps
\* being made is at some point answered otherwise.
SpecLoop ==
    /\ InitLoop
    /\ [][NextLoop]_vars
    /\ WF_vars(LoopAnswered)
    /\ WF_vars(DrainAnswered)

\* ---------------------------------------------------------------- properties
\* the source as it stood when the recorded call began
Source0 == [data |-> source.data, off |-> last.off0]

HandedOut == SubSeq(source.data, 1, source.off)

\* the source reported an error other than Interrupted during the recorded call
SourceFailed == \E i \in DOMAIN last.script : last.script[i].kind = "err"

IsSeek == last.op \in {"seek_start", "seek_current", "seek_end"}

Whence ==
    CASE last.op = "seek_start" -> "Start"
      [] last.op = "seek_end" -> "End"
      [] OTHER -> "Current"

\* C1: after every operation, successful or failed, 0 <= pos <= buf.len().
CursorInBounds == pos \in 0 .. Len(buf)

CursorInBounds_Witness ==
    /\ last.op = "consume"
    /\ last.res = "ok"
    /\ last.arg > Len(last.buf0) - last.pos0
    /\ last.pos0 < Len(buf)
    /\ pos = Len(buf)

\* C2: buf is exactly the bytes the source has handed out so far, in order,
\* and every operation leaves the previous buf as a prefix of the new one.
AccumulatesSource ==
    /\ buf = HandedOut
    /\ IsPrefix(last.buf0, buf)

AccumulatesSource_Witness ==
    /\ last.op = "seek_current"
    /\ last.res = "err"
    /\ last.buf0 # <<>>
    /\ Len(buf) > Len(last.buf0)

\* C3: reading a fresh adapter to the end with reads into destinations of
\* positive capacity, seeking to Start(0) and reading to the end again gives
\* the same bytes both times, and they are the bytes of the source.
ReplayIdentical ==
    /\ phase \notin {"stuck"}
    /\ phase \in {"rewind", "pass2", "done"} => out1 = source.data
    /\ phase = "done" => (out2 = out1 /\ out2 = source.data)

ReplayIdentical_Witness ==
    /\ phase = "done"
    /\ Len(out2) = MaxLen
    /\ source.off = Len(source.data)

\* C6: for a source of length L that reports no error of its own,
\* seek(End(-k)) with 0 <= k <= L succeeds, leaves all L bytes in buf and pos
\* at L - k, and reading to the end afterwards delivers the last k bytes;
\* with k > L it fails with InvalidInput.
EndSeekCorrect ==
    LET L == Len(source.data)
        k == -mark.arg
    IN (mark.op = "seek_end" /\ ~mark.failed) =>
          /\ k <= L => (mark.res = "ok" /\ mark.ret = L - k)
          /\ k > L => (mark.res = "invalid" /\ phase = "failed")
          /\ buf = source.data
          /\ (last.op = "seek_end" /\ k <= L) => pos = L - k
          /\ phase \in {"tail", "done"} =>
                IsPrefix(out1, SubSeq(source.data, L - k + 1, L))
          /\ phase = "done" => out1 = SubSeq(source.data, L - k + 1, L)

EndSeekCorrect_Witness ==
    /\ phase = "done"
    /\ mark.op = "seek_end"
    /\ mark.pos0 > 0
    /\ mark.len0 < Len(buf)
    /\ Len(out1) = 2
    /\ Len(source.data) = MaxLen

\* C8: for a >= 0, b >= 0 and a source of at least pos + a + b bytes,
\* seek(Current(a)) followed by seek(Current(b)) ends at the cursor, and
\* returns the position, of the one call seek(Current(a + b)), however the
\* source splits its reads.
RelativeSeeksAdd ==
    /\ phase \in {"first", "second", "done"} =>
          (twin.res = "ok" /\ twin.ret = twin.c + twin.a + twin.b)
    /\ phase # "failed"
    /\ phase = "done" =>
          /\ last.res = "ok"
          /\ pos = twin.pos
          /\ last.ret = twin.ret

RelativeSeeksAdd_Witness ==
    /\ phase = "done"
    /\ twin.c > 0
    /\ twin.a > 0
    /\ twin.b > 0
    /\ Len(buf) = pos

\* C4: a successful read into a destination of capacity n returns k in 0..n,
\* advances pos by k and delivers buf[pos0 .. pos0 + k] of the buffer as it
\* stands after the call, which are stream positions pos0 .. pos0 + k.
ReadDeliversFromCursor ==
    (last.op = "read" /\ last.res = "ok") =>
        /\ last.ret \in 0 .. last.arg
        /\ pos = last.pos0 + last.ret
        /\ Len(last.out) = last.ret
        /\ last.out = SubSeq(buf, last.pos0 + 1, last.pos0 + last.ret)
        /\ last.out = SubSeq(source.data, last.pos0 + 1, last.pos0 + last.ret)

ReadDeliversFromCursor_Witness ==
    /\ last.op = "read"
    /\ last.res = "ok"
    /\ last.calls = 0
    /\ last.pos0 > 0
    /\ last.ret >= 2

\* C5 as stated: for every destination capacity, a read returns 0 only with
\* nothing pending and after the source itself returned 0; it never returns
\* 0 while data is pending.
ReadZeroOnlyAtEnd_AnyCapacity ==
    (last.op = "read" /\ last.res = "ok" /\ last.ret = 0) =>
        /\ last.pos0 = Len(last.buf0)
        /\ last.calls = 1

\* C5 amended: for every destination capacity n >= 1, a read returns 0 only
\* when nothing is pending and its one request to the source came back empty
\* at the end of the stream; with data pending it returns at least one byte.
\* With n = 0 a read returns 0 in every state.
ReadZeroOnlyAtEnd ==
    /\ (last.op = "read" /\ last.res = "ok" /\ last.arg >= 1 /\ last.ret = 0) =>
          /\ last.pos0 = Len(last.buf0)
          /\ last.calls = 1
          /\ Remaining(source) = 0
    /\ (last.op = "read" /\ last.arg >= 1 /\ last.pos0 < Len(last.buf0)) =>
          /\ last.res = "ok"
          /\ last.ret >= 1
    /\ (last.op = "read" /\ last.res = "ok" /\ last.arg = 0) => last.ret = 0

ReadZeroOnlyAtEnd_Witness ==
    /\ last.op = "read"
    /\ last.res = "ok"
    /\ last.arg >= 2
    /\ last.ret = 0
    /\ Len(buf) > 0

\* C7: a seek to a target past the end of the stream or before its beginning
\* fails with InvalidInput and leaves pos as it was; the bytes pulled from the
\* source during the attempt stay in buf.  (A source that reports an error
\* of its own during the attempt makes the seek fail with that error.)
OutOfRange ==
    \/ last.op = "seek_start" /\ last.arg > Len(source.data)
    \/ last.op = "seek_current" /\ last.arg > 0
          /\ last.pos0 + last.arg > Len(source.data)
    \/ last.op = "seek_current" /\ last.arg < 0 /\ -last.arg > last.pos0
    \/ last.op = "seek_end" /\ last.arg < 0 /\ -last.arg > Len(source.data)
    \/ last.op = "seek_end" /\ last.arg > 0

OutOfRangeRejected ==
    OutOfRange =>
        /\ last.res \in {"invalid", "err"}
        /\ ~SourceFailed => last.res = "invalid"
        /\ pos = last.pos0
        /\ IsPrefix(last.buf0, buf)
        /\ Len(buf) - Len(last.buf0) = source.off - last.off0

OutOfRangeRejected_Witness ==
    /\ last.op = "seek_start"
    /\ last.arg > Len(source.data)
    /\ last.res = "invalid"
    /\ last.pos0 > 0
    /\ Len(buf) > Len(last.buf0)

\* C9 as stated: consume(amt) sets pos to min(pos + amt, buf.len()) for every
\* amt of the word, never decreases pos and touches neither buf nor source.
ConsumeClamps ==
    last.op = "consume" =>
        /\ last.res = "ok"
        /\ pos = Min(last.pos0 + last.arg, Len(last.buf0))
        /\ pos >= last.pos0
        /\ buf = last.buf0
        /\ source.off = last.off0
        /\ last.calls = 0

StripIntr(script) == SelectSeq(script, LAMBDA r : r.kind # "intr")

ChunkedViews ==
    LET L == Len(source.data)
        k == inc
        n == Len(out2)
    IN /\ last.res = "ok"
       /\ \A i \in 1 .. n : out2[i] = SubSeq(source.data, (i - 1) * k + 1, Min(i * k, L))
       /\ \A i \in 1 .. n : (i * k <= L) => Len(out2[i]) = k
       /\ phase = "done" =>
             /\ out1 = source.data
             /\ n = (L \div k) + (IF L % k = 0 THEN 0 ELSE 1) + 1
             /\ out2[n] = <<>>
       /\ (phase = "done" /\ source.data = BufReadTestStream /\ inc = BufReadTestInc) =>
             out2 = << <<5, 6, 7>>, <<0, 1, 2>>, <<3, 4>>, <<>> >>

ChunkedViews_Witness ==
    /\ phase = "done"
    /\ source.data = BufReadTestStream
    /\ Len(out2) = 4

\* C12 as stated: over [5,6,7,0,1,2,3,4], reads into a 2-byte destination
\* deliver [5,6], [7,0], [1,2], then the single byte [3], then nothing.
ReadScenario_EightBytes ==
    (source.data = BufReadTestStream /\ mark.arg = ReadTestDst /\ phase = "done") =>
        out2 = << <<5, 6>>, <<7, 0>>, <<1, 2>>, <<3>>, <<>> >>

\* C12 amended: over [5,6,7,0,1,2,3], the stream of test_acc_reader_read,
\* reads into a 2-byte destination deliver [5,6], [7,0], [1,2], then the
\* single byte [3], and the read after that returns 0; over
\* [5,6,7,0,1,2,3,4] the fourth read delivers [3,4].  In general the i-th
\* read into a destination of capacity n delivers stream positions
\* (i-1)n .. min(i n, L).
ReadScenario ==
    LET L == Len(source.data)
        n == mark.arg
    IN /\ last.res = "ok"
       /\ last.ret = Len(last.out)
       /\ \A i \in 1 .. Len(out2) :
             out2[i] = SubSeq(source.data, (i - 1) * n + 1, Min(i * n, L))
       /\ (source.data = ReadTestStream /\ n = ReadTestDst /\ phase = "done") =>
             out2 = << <<5, 6>>, <<7, 0>>, <<1, 2>>, <<3>>, <<>> >>
       /\ (source.data = BufReadTestStream /\ n = ReadTestDst /\ phase = "done") =>
             out2 = << <<5, 6>>, <<7, 0>>, <<1, 2>>, <<3, 4>>, <<>> >>

ReadScenario_Witness ==
    /\ phase = "done"
    /\ source.data = ReadTestStream
    /\ mark.arg = ReadTestDst
    /\ Len(out2) = 5

\* C13: from any state, seek(Start(t)) with t > buf.len() succeeds exactly
\* when the source still holds t - buf.len() bytes, however it splits its
\* reads; it then pulls exactly the shortfall, leaves buf.len() = t = pos and
\* returns t.  (A source that reports an error of its own makes the seek
\* fail with that error.)
SeekStartBeyondBuffer ==
    (last.op = "seek_start" /\ last.arg > Len(last.buf0) /\ ~SourceFailed) =>
        LET shortfall == last.arg - Len(last.buf0)
            held == Len(source.data) - last.off0
        IN /\ (last.res = "ok") <=> (held >= shortfall)
           /\ last.res \in {"ok", "invalid"}
           /\ last.res = "ok" =>
                 /\ Len(buf) = last.arg
                 /\ pos = last.arg
                 /\ last.ret = last.arg
                 /\ source.off - last.off0 = shortfall

SeekStartBeyondBuffer_Witness ==
    /\ last.op = "seek_start"
    /\ last.res = "ok"
    /\ last.arg >= Len(last.buf0) + 2
    /\ last.calls >= 2
    /\ last.intrs = 0
    /\ Remaining(source) > 0

\* C14: a seek whose target lies inside what is already accumulated,
\* Start(t) with t <= buf.len() or Current(d) with 0 <= pos + d <= buf.len(),
\* makes no request to the source, leaves buf as it is, sets pos to the
\* target and returns it; Current(0) changes nothing.
SeekInsideBuffer ==
    LET target == IF last.op = "seek_start" THEN last.arg
                  ELSE last.pos0 + last.arg
    IN (/\ last.op \in {"seek_start", "seek_current"}
        /\ target \in 0 .. Len(last.buf0)) =>
          /\ last.res = "ok"
          /\ last.calls = 0
          /\ buf = last.buf0
          /\ source.off = last.off0
          /\ pos = target
          /\ last.ret = target
          /\ (last.op = "seek_current" /\ last.arg = 0) => pos = last.pos0

SeekInsideBuffer_Witness ==
    /\ last.op = "seek_current"
    /\ last.arg < 0
    /\ last.pos0 + last.arg >= 0
    /\ last.pos0 + last.arg # -last.arg
    /\ last.res = "ok"
    /\ Remaining(source) > 0

\* C15: from any state with cursor c and any d > 0, seek(Current(d)) and
\* seek(Start(c + d)) are the same operation: the same result (the position
\* returned, or the same failure), the same final pos and buf, and the same
\* bytes taken from the source, under the same answers of the source.
Same(R) ==
    /\ R.res = last.res
    /\ R.ret = last.ret
    /\ R.pos = pos
    /\ R.buf = buf
    /\ R.source = source
    /\ R.calls = last.calls

CurrentIsStartFromCursor ==
    /\ (last.op = "seek_current" /\ last.arg > 0) =>
          Same(seek(Source0, last.buf0, last.pos0, "Start",
                    last.pos0 + last.arg, last.script))
    /\ (last.op = "seek_start" /\ last.arg > last.pos0) =>
          Same(seek(Source0, last.buf0, last.pos0, "Current",
                    last.arg - last.pos0, last.script))

CurrentIsStartFromCursor_Witness ==
    /\ last.op = "seek_current"
    /\ last.arg > 0
    /\ last.pos0 > 0
    /\ last.calls >= 2
    /\ last.res = "err"

\* C16: fill_buf never moves pos and on success returns buf[pos..] as buf
\* stands after the call.  With data pending it makes no request to the
\* source and changes nothing; with none pending it makes one request, of at
\* most inc bytes, and appends exactly the bytes obtained.
FillBufFrame ==
    last.op = "fill_buf" =>
        LET available == Len(last.buf0) - last.pos0
        IN /\ pos = last.pos0
           /\ last.res = "ok" => last.out = SubSeq(buf, pos + 1, Len(buf))
           /\ available > 0 =>
                 /\ last.res = "ok"
                 /\ last.calls = 0
                 /\ buf = last.buf0
                 /\ source.off = last.off0
           /\ available = 0 =>
                 /\ last.calls = 1
                 /\ source.off - last.off0 <= inc
                 /\ buf = last.buf0 \o SubSeq(source.data, last.off0 + 1, source.off)

FillBufFrame_Witness ==
    /\ last.op = "fill_buf"
    /\ last.res = "ok"
    /\ Len(last.buf0) > last.pos0
    /\ last.pos0 > 0
    /\ Remaining(source) > 0
    /\ inc > 0

\* C17: when the source reports an error other than Interrupted during a
\* read, a fill_buf refill or a seek that reads from the source, the
\* operation returns the error without another request to the source, pos is
\* unchanged and buf is the old buf extended by the bytes obtained before
\* the error (none for read and fill_buf).
SourceErrorPropagates ==
    /\ SourceFailed <=> last.res = "err"
    /\ last.res = "err" =>
          /\ last.calls = Len(last.script)
          /\ last.script[Len(last.script)].kind = "err"
          /\ \A i \in 1 .. Len(last.script) - 1 : last.script[i].kind # "err"
          /\ pos = last.pos0
          /\ buf = last.buf0 \o SubSeq(source.data, last.off0 + 1, source.off)
          /\ last.op \in {"read", "fill_buf"} =>
                (buf = last.buf0 /\ last.calls = 1)
          /\ last.op \in {"read", "fill_buf", "seek_start", "seek_current",
                          "seek_end"}

SourceErrorPropagates_Witness ==
    /\ last.op = "seek_end"
    /\ last.res = "err"
    /\ last.pos0 > 0
    /\ Len(buf) > Len(last.buf0)

\* C18: a read that can serve buffered data (min(available, n) > 0) makes
\* no request to the source and returns exactly min(available, n) bytes;
\* otherwise it makes exactly one request of up to n bytes and returns what
\* that request produced, even if less than n in mid-stream.  One read never
\* delivers buffered and freshly read bytes together.
ReadOneRequest ==
    last.op = "read" =>
        LET available == Len(last.buf0) - last.pos0
            to_serve == Min(available, last.arg)
            fresh == source.off - last.off0
        IN /\ to_serve > 0 =>
                 /\ last.res = "ok"
                 /\ last.calls = 0
                 /\ last.ret = to_serve
                 /\ fresh = 0
                 /\ buf = last.buf0
           /\ to_serve = 0 =>
                 /\ last.calls = 1
                 /\ last.res = "ok" =>
                       /\ last.ret = fresh
                       /\ last.ret <= last.arg
                       /\ last.out = SubSeq(source.data, last.off0 + 1, source.off)
           /\ fresh = 0 \/ fresh = Len(last.out)

ReadOneRequest_Witness ==
    /\ last.op = "read"
    /\ last.res = "ok"
    /\ last.calls = 1
    /\ last.ret >= 1
    /\ last.ret < last.arg
    /\ Remaining(source) > 0
    /\ Len(last.buf0) > 0

\* C19: seek(End(n)) with n > 0 fails with InvalidInput in every state, and
\* without draining or otherwise reading the source: pos and buf are as
\* before the call.
SeekPastEndRejected ==
    (last.op = "seek_end" /\ last.arg > 0) =>
        /\ last.res = "invalid"
        /\ last.calls = 0
        /\ pos = last.pos0
        /\ buf = last.buf0
        /\ source.off = last.off0

SeekPastEndRejected_Witness ==
    /\ last.op = "seek_end"
    /\ last.arg > 1
    /\ last.res = "invalid"
    /\ last.pos0 > 0
    /\ Remaining(source) > 0

\* C20: a forward seek with a shortfall of s bytes completes, given that
\* the source does not answer Interrupted forever: every pass of the loop of
\* read_up_to that is not interrupted reduces what is left of the shortfall
\* or leaves the loop, so at most s requests return data; a seek from the
\* end with offset <= 0 completes once the finite source reports its end.
SeeksTerminate ==
    /\ [](phase = "loop" =>
            /\ twin.reads <= twin.s - twin.rem
            /\ twin.rem \in 1 .. twin.s
            /\ twin.rem = twin.target - Len(buf))
    /\ [](twin.op \in {"seek_start", "seek_current"} => twin.reads <= twin.s)
    /\ [][(phase = "loop" /\ twin'.kind # "intr") =>
            (twin'.rem < twin.rem \/ phase' = "idle")]_vars
    /\ [][(phase = "drain" /\ twin'.kind # "intr") =>
            (Remaining(source') < Remaining(source) \/ phase' = "idle")]_vars
    /\ (phase = "loop") ~> (phase = "idle")
    /\ (phase = "drain") ~> (phase = "idle")

SeeksTerminate_Witness ==
    /\ phase = "idle"
    /\ twin.op = "seek_current"
    /\ last.op = "seek_current"
    /\ last.res = "ok"
    /\ last.pos0 > 0
    /\ twin.s >= 2
    /\ twin.reads = twin.s
    /\ twin.intrs >= 2

====
